---------------------------- MODULE Spec2Model ----------------------------
(***************************************************************************)
(* Model of the modal registry (class ModalMediatorService, the singleton  *)
(* ModalMediator): a store of panel states, the order in which panels were *)
(* opened, a set of subscribers, and a global keydown listener that closes *)
(* the most recently opened panel on Escape.                               *)
(*                                                                         *)
(* Every call of the public interface (openModal, closeModal, subscribe,   *)
(* an unsubscribe closure, a keydown event) is one action: JavaScript runs *)
(* each of them to completion.  A call is computed by operators on a       *)
(* record r that holds the registry's fields together with what the call   *)
(* has done so far (the deliveries it made, whether a subscriber threw).   *)
(***************************************************************************)
EXTENDS Naturals, Sequences, FiniteSets

(* ------------------------------ bounds --------------------------------- *)

\* how many distinct panel identifiers the callers use
NumIds == 3

IdPool == << "", "a", "b", "c", "d", "e" >>

\* panel identifiers are arbitrary strings, the empty string included
Ids == { IdPool[i] : i \in 1..NumIds }

\* subscriber functions, told apart by identity: f always returns, g is a
\* subscriber that throws when its caller has armed it (the tests'
\* conditionalErrorSubscriber) and returns otherwise
Observers == { "f", "g" }

Throwers == { "g" }

\* event.key values delivered to the keydown listener
Keys == { "Escape", "Enter" }

\* the subscriber that useModalSubscription's effect passes to subscribe: a
\* closure made by each run of the effect, which holds the modalId of that run.
\* The effect runs again only when modalId has changed, after the cleanup of its
\* previous run, so the closures that are ever registered together differ in
\* their modalId and the modalId tells them apart.
HookFn(modalId) == "hook:" \o modalId

HookFns == { HookFn(id) : id \in Ids }

\* the modalId a closure of the hook holds
CapturedId(s) == CHOOSE id \in Ids : HookFn(id) = s

\* "no subscriber throws in this call"
Nobody == "nobody"

\* getLastOpenModal's null
Null == "null"

(* ------------------------------ state ---------------------------------- *)

VARIABLES
    modals,       \* Map<string, ModalState>: a function on the ids that have an entry
    subscribers,  \* Set<ModalSubscriber>, in insertion order (the order forEach visits)
    openOrder,    \* string[]
    handles,      \* the subscribers for which subscribe has returned an unsubscribe closure
    rank,         \* history: rank[id] orders the ids by their latest openModal call (0: never)
    lastTarget,   \* history: whether the latest call that targeted an id (openModal,
                  \* closeModal, an Escape that picked it) was openModal(id)
    cancelled,    \* history: per subscriber, "never" while no closure returned for it
                  \* has been called, "cancelled" once one has, "resubscribed" when
                  \* it was passed to subscribe again after that
    hook,         \* one component that uses useModalSubscription: whether it is
                  \* mounted, its modalId and defaultOpen arguments, its isOpen state
    kept,         \* a map a subscriber was handed and has kept: what it shows now,
                  \* and the ids it binds to the object this.modals binds them to
    last          \* history: the call that led to this state and the deliveries it made

vars == << modals, subscribers, openOrder, handles, rank, lastTarget, cancelled, hook,
          kept, last >>

(* --------------------------- Map / Set / Array ------------------------- *)

EmptyMap == [ x \in {} |-> x ]

\* interface ModalState { id: string; isOpen: boolean }
ModalState(id, isOpen) == [ id |-> id, isOpen |-> isOpen ]

\* Map.prototype.has
MapHas(m, k) == k \in DOMAIN m

\* Map.prototype.set
MapSet(m, k, v) == [ x \in (DOMAIN m) \cup {k} |-> IF x = k THEN v ELSE m[x] ]

\* new Map(this.modals): a map with the same keys, each bound to the same entry
MapCopy(m) == [ x \in DOMAIN m |-> m[x] ]

Range(s) == { s[i] : i \in 1..Len(s) }

\* Array.prototype.filter(x => x !== v)
RECURSIVE Without(_, _)
Without(s, v) ==
    IF s = << >> THEN << >>
    ELSE IF Head(s) = v THEN Without(Tail(s), v)
         ELSE << Head(s) >> \o Without(Tail(s), v)

\* an add that appends also what is a member already
SetAdd_KeepsBoth(s, v) == Append(s, v)

\* Set.prototype.add on an insertion-ordered set: a member keeps its place
SetAdd(s, v) == IF v \in Range(s) THEN s ELSE Append(s, v)

\* Set.prototype.delete
SetDelete(s, v) == Without(s, v)

(* ------------------------- history bookkeeping ------------------------- *)

\* the ids opened so far, ranked by their latest openModal call: id becomes the latest
RankAfterOpen(rk, id) ==
    LET n   == Cardinality({ x \in Ids : rk[x] > 0 })
        old == rk[id]
    IN  [ x \in Ids |->
            IF x = id THEN (IF old = 0 THEN n + 1 ELSE n)
            ELSE IF old > 0 /\ rk[x] > old THEN rk[x] - 1
            ELSE rk[x] ]

\* one invocation of a subscriber: who was called, and the map it was handed
Delivery(s, snap) == [ to |-> s, snap |-> snap ]

(* ------------------------- ModalMediatorService ------------------------ *)

\* an isModalOpen that answers whether the id has an entry
isModalOpen_HasEntry(m, id) == MapHas(m, id)

\* isModalOpen(id): the entry's flag, false when there is no entry
isModalOpen(m, id) == IF MapHas(m, id) THEN m[id].isOpen ELSE FALSE

\* getLastOpenModal(): scan openOrder from the tail for an id that is open
RECURSIVE ScanFrom(_, _, _)
ScanFrom(m, order, i) ==
    IF i < 1 THEN Null
    ELSE IF isModalOpen(m, order[i]) THEN order[i]
    ELSE ScanFrom(m, order, i - 1)

\* a getLastOpenModal that returns the tail of openOrder without asking isModalOpen
getLastOpenModal_IgnoresState(m, order) ==
    IF order = << >> THEN Null ELSE order[Len(order)]

getLastOpenModal(m, order) == ScanFrom(m, order, Len(order))

\* the truthiness test `if (lastOpenModal)`: null and the empty string are falsy
Truthy(v) == v # Null /\ v # ""

\* Map.prototype.delete
MapDelete(m, k) == [ x \in (DOMAIN m) \ {k} |-> m[x] ]

\* what a subscriber does with the map it is handed: nothing, or one of
\* snap.set(id, {id, isOpen}), snap.delete(id), snap.get(id).isOpen = isOpen
NoTamper == [ by |-> Nobody, kind |-> "none", id |-> Null, isOpen |-> FALSE ]

\* the map a subscriber was handed, after the subscriber has acted on it
TamperedCopy(snap, s, t) ==
    IF s # t.by THEN snap
    ELSE IF t.kind = "set" THEN MapSet(snap, t.id, ModalState(t.id, t.isOpen))
    ELSE IF t.kind = "delete" THEN MapDelete(snap, t.id)
    ELSE IF t.kind = "write" /\ MapHas(snap, t.id)
         THEN [ snap EXCEPT ![t.id].isOpen = t.isOpen ]
    ELSE snap

\* this.modals after the subscriber has acted on the map it was handed: new Map(m)
\* binds each key to the entry object m binds it to, so an assignment to a
\* field of an entry reached through the copy is an assignment to m's entry
TamperedStore(m, snap, s, t) ==
    IF s = t.by /\ t.kind = "write" /\ MapHas(snap, t.id) /\ MapHas(m, t.id)
    THEN [ m EXCEPT ![t.id].isOpen = t.isOpen ]
    ELSE m

\* a subscriber of the hook that keeps its state when the map has no entry
HookSees_KeepsWhenMissing(h, s, snap) ==
    IF s \in HookFns /\ MapHas(snap, CapturedId(s))
    THEN [ h EXCEPT !.isOpen = snap[CapturedId(s)].isOpen ]
    ELSE h

\* the hook's subscriber: const modal = modals.get(modalId);
\* setIsOpen(modal ? modal.isOpen : false)
HookSees(h, s, snap) ==
    IF s \in HookFns
    THEN [ h EXCEPT !.isOpen = IF MapHas(snap, CapturedId(s))
                               THEN snap[CapturedId(s)].isOpen ELSE FALSE ]
    ELSE h

\* what a subscriber calls from inside its callback: nothing, or openModal(id),
\* closeModal(id) or the closure returned for subscriber sub, once in an
\* outermost call (done: it has made that call)
NoReentry == [ by |-> Nobody, op |-> "none", id |-> Null, sub |-> Nobody, done |-> FALSE ]

RECURSIVE openModal(_, _, _)
RECURSIVE closeModal(_, _, _)
RECURSIVE unsubscribe(_, _)

\* the call a subscriber makes from inside its callback; no subscriber throws in it
Reenter(r, p) ==
    IF p.op = "open" THEN openModal(r, p.id, Nobody)
    ELSE IF p.op = "close" THEN closeModal(r, p.id, Nobody)
    ELSE IF p.op = "unsubscribe" THEN unsubscribe(r, p.sub)
    ELSE r

\* subscriber(snap): the call is recorded; the subscriber named by thrower throws
\* (raised: history, an exception left a subscriber; thrown: it is on its way out;
\* stale: history, a subscriber was handed a map that differed from this.modals
\* at that moment); the subscriber named by r.reenter calls the registry
Invoke(r, s, snap, thrower) ==
    LET r1 == [ r EXCEPT !.log    = Append(@, Delivery(s, snap)),
                         !.thrown = (s = thrower),
                         !.raised = @ \/ (s = thrower),
                         !.stale  = @ \/ (snap # r.modals),
                         !.modals = TamperedStore(@, snap, s, r.tamper),
                         !.hook   = HookSees(@, s, snap) ]
    IN  IF s = r.reenter.by /\ ~r.reenter.done
        THEN Reenter([ r1 EXCEPT !.reenter.done = TRUE ], r.reenter)
        ELSE r1

\* an iteration that goes on with the next index, whatever the callback deleted
RECURSIVE ForEach_ByIndex(_, _, _, _)
ForEach_ByIndex(r, i, modalsCopy, thrower) ==
    IF r.thrown \/ i > Len(r.subscribers) THEN r
    ELSE ForEach_ByIndex(Invoke(r, r.subscribers[i], modalsCopy, thrower), i + 1,
                         TamperedCopy(modalsCopy, r.subscribers[i], r.tamper), thrower)

\* where Set.prototype.forEach goes on after it has visited the first i members
\* of before and the callback has left the members after: a member deleted
\* before its visit is not visited, no member left is passed over
NextToVisit(before, i, after) ==
    IF after = before THEN i + 1
    ELSE Cardinality({ k \in 1..i : before[k] \in Range(after) }) + 1

\* this.subscribers.forEach(subscriber => subscriber(modalsCopy)), from the i-th
\* member on; an exception ends the iteration
RECURSIVE ForEach(_, _, _, _)
ForEach(r, i, modalsCopy, thrower) ==
    IF r.thrown \/ i > Len(r.subscribers) THEN r
    ELSE LET visited == Invoke(r, r.subscribers[i], modalsCopy, thrower)
         IN  ForEach(visited, NextToVisit(r.subscribers, i, visited.subscribers),
                     TamperedCopy(modalsCopy, r.subscribers[i], r.tamper), thrower)

\* a notify that iterates from the subscriber registered last to the first
notify_LastFirst(r, thrower) ==
    LET n == Len(r.subscribers)
        turned == [ i \in 1..n |-> r.subscribers[n + 1 - i] ]
    IN  [ ForEach([ r EXCEPT !.subscribers = turned ], 1, MapCopy(r.modals), thrower)
            EXCEPT !.subscribers = r.subscribers ]

\* a notify that wraps the iteration in try/catch and drops the exception
notify_Swallows(r, thrower) ==
    [ ForEach(r, 1, MapCopy(r.modals), thrower) EXCEPT !.thrown = FALSE ]

\* notify(): one copy of the map, handed to every subscriber
notify(r, thrower) == ForEach(r, 1, MapCopy(r.modals), thrower)

\* an openModal that returns early when the panel is already open
openModal_SkipsWhenOpen(r, id, thrower) ==
    IF isModalOpen(r.modals, id)
    THEN [ r EXCEPT !.lastTarget = [ @ EXCEPT ![id] = TRUE ],
                    !.opens      = @ + 1,
                    !.fresh      = @ \cup {id} ]
    ELSE notify([ r EXCEPT !.modals     = MapSet(@, id, ModalState(id, TRUE)),
                           !.openOrder  = Append(Without(@, id), id),
                           !.rank       = RankAfterOpen(@, id),
                           !.lastTarget = [ @ EXCEPT ![id] = TRUE ],
                           !.opens      = @ + 1,
                           !.fresh      = @ \cup {id} ],
                thrower)

\* an openModal that closes every other panel
openModal_ClosesOthers(r, id, thrower) ==
    notify([ r EXCEPT !.modals     = [ x \in (DOMAIN @) \cup {id} |-> ModalState(x, x = id) ],
                      !.openOrder  = Append(Without(@, id), id),
                      !.rank       = RankAfterOpen(@, id),
                      !.lastTarget = [ @ EXCEPT ![id] = TRUE ],
                      !.opens      = @ + 1,
                      !.fresh      = @ \cup {id} ],
           thrower)

\* an openModal that pushes id without filtering the earlier occurrence out
openModal_NoFilter(r, id, thrower) ==
    notify([ r EXCEPT !.modals     = MapSet(@, id, ModalState(id, TRUE)),
                      !.openOrder  = Append(@, id),
                      !.rank       = RankAfterOpen(@, id),
                      !.lastTarget = [ @ EXCEPT ![id] = TRUE ],
                      !.opens      = @ + 1,
                      !.fresh      = @ \cup {id} ],
           thrower)

\* an openModal that puts modals and openOrder back when a subscriber throws
openModal_RollsBack(r, id, thrower) ==
    LET out == notify([ r EXCEPT !.modals     = MapSet(@, id, ModalState(id, TRUE)),
                                 !.openOrder  = Append(Without(@, id), id),
                                 !.rank       = RankAfterOpen(@, id),
                                 !.lastTarget = [ @ EXCEPT ![id] = TRUE ],
                                 !.opens      = @ + 1,
                                 !.fresh      = @ \cup {id} ],
                      thrower)
    IN  IF out.thrown
        THEN [ out EXCEPT !.modals = r.modals, !.openOrder = r.openOrder ]
        ELSE out

\* an openModal that takes id out of openOrder and does not push it
openModal_NoPush(r, id, thrower) ==
    notify([ r EXCEPT !.modals     = MapSet(@, id, ModalState(id, TRUE)),
                      !.openOrder  = Without(@, id),
                      !.rank       = RankAfterOpen(@, id),
                      !.lastTarget = [ @ EXCEPT ![id] = TRUE ],
                      !.opens      = @ + 1,
                      !.fresh      = @ \cup {id} ],
           thrower)

\* openModal(id); rank, lastTarget and opens (how many openModal calls were made
\* in the call on record) are history, the code has no such fields
openModal(r, id, thrower) ==
    notify([ r EXCEPT !.modals     = MapSet(@, id, ModalState(id, TRUE)),
                      !.openOrder  = Append(Without(@, id), id),
                      !.rank       = RankAfterOpen(@, id),
                      !.lastTarget = [ @ EXCEPT ![id] = TRUE ],
                      !.opens      = @ + 1,
                      !.fresh      = @ \cup {id} ],
           thrower)

\* a closeModal that deletes the entry
closeModal_Deletes(r, id, thrower) ==
    LET r1 == [ r EXCEPT !.lastTarget = [ @ EXCEPT ![id] = FALSE ],
                         !.closes     = @ + 1,
                         !.fresh      = @ \cup {id} ]
    IN  IF MapHas(r.modals, id)
        THEN notify([ r1 EXCEPT !.modals = MapDelete(@, id) ], thrower)
        ELSE r1

\* a closeModal that returns early when the panel is not open
closeModal_SkipsWhenClosed(r, id, thrower) ==
    LET r1 == [ r EXCEPT !.lastTarget = [ @ EXCEPT ![id] = FALSE ],
                         !.closes     = @ + 1,
                         !.fresh      = @ \cup {id} ]
    IN  IF isModalOpen(r.modals, id)
        THEN notify([ r1 EXCEPT !.modals =
                          MapSet(@, id, [ r.modals[id] EXCEPT !.isOpen = FALSE ]) ],
                    thrower)
        ELSE r1

\* a closeModal that also drops id from openOrder
closeModal_ForgetsOrder(r, id, thrower) ==
    LET r1 == [ r EXCEPT !.lastTarget = [ @ EXCEPT ![id] = FALSE ],
                         !.closes     = @ + 1,
                         !.fresh      = @ \cup {id} ]
    IN  IF MapHas(r.modals, id)
        THEN notify([ r1 EXCEPT !.modals =
                          MapSet(@, id, [ r.modals[id] EXCEPT !.isOpen = FALSE ]),
                                !.openOrder = Without(@, id) ],
                    thrower)
        ELSE r1

\* a closeModal without the has(id) test
closeModal_NoHasTest(r, id, thrower) ==
    notify([ r EXCEPT !.modals     = MapSet(@, id, ModalState(id, FALSE)),
                      !.lastTarget = [ @ EXCEPT ![id] = FALSE ],
                      !.closes     = @ + 1,
                      !.fresh      = @ \cup {id} ],
           thrower)

\* a closeModal that notifies before it writes the entry
closeModal_NotifiesFirst(r, id, thrower) ==
    LET r1 == [ r EXCEPT !.lastTarget = [ @ EXCEPT ![id] = FALSE ],
                         !.closes     = @ + 1,
                         !.fresh      = @ \cup {id} ]
    IN  IF MapHas(r.modals, id)
        THEN [ notify(r1, thrower) EXCEPT !.modals =
                   MapSet(@, id, [ @[id] EXCEPT !.isOpen = FALSE ]) ]
        ELSE r1

\* a closeModal that assigns to the isOpen field of the entry object
closeModal_InPlace(r, id, thrower) ==
    LET r1 == [ r EXCEPT !.lastTarget = [ @ EXCEPT ![id] = FALSE ],
                         !.closes     = @ + 1 ]
    IN  IF MapHas(r.modals, id)
        THEN notify([ r1 EXCEPT !.modals = [ @ EXCEPT ![id].isOpen = FALSE ] ], thrower)
        ELSE r1

\* closeModal(id): set(id, {...currentModal, isOpen: false}) binds id to a new
\* object; lastTarget and closes (how many closeModal calls were made in the call
\* on record) are history, fresh is the ids the call has bound to a new object
closeModal(r, id, thrower) ==
    LET r1 == [ r EXCEPT !.lastTarget = [ @ EXCEPT ![id] = FALSE ],
                         !.closes     = @ + 1 ]
    IN  IF MapHas(r.modals, id)
        THEN notify([ r1 EXCEPT !.modals =
                          MapSet(@, id, [ r.modals[id] EXCEPT !.isOpen = FALSE ]),
                                !.fresh  = @ \cup {id} ],
                    thrower)
        ELSE r1

\* history: s is passed to subscribe
Resubscribed(c, s) == [ c EXCEPT ![s] = IF @ = "never" THEN @ ELSE "resubscribed" ]

\* a subscribe that calls this.notify() where the code calls the new subscriber
subscribe_NotifiesAll(r, s, thrower) ==
    notify([ r EXCEPT !.subscribers = SetAdd(@, s),
                      !.cancelled   = Resubscribed(@, s) ], thrower)

\* a subscribe that adds the subscriber after the invocation, when that returned
subscribe_AddsAfterwards(r, s, thrower) ==
    LET out == Invoke([ r EXCEPT !.cancelled = Resubscribed(@, s) ],
                      s, MapCopy(r.modals), thrower)
    IN  IF out.thrown THEN out ELSE [ out EXCEPT !.subscribers = SetAdd(@, s) ]

\* subscribe(subscriber), up to the return statement; cancelled is history
subscribe(r, s, thrower) ==
    Invoke([ r EXCEPT !.subscribers = SetAdd(@, s),
                      !.cancelled   = Resubscribed(@, s) ],
           s, MapCopy(r.modals), thrower)

\* a closure that empties the Set
unsubscribe_ClearsAll(r, s) ==
    [ r EXCEPT !.subscribers = << >>,
               !.cancelled   = [ @ EXCEPT ![s] = "cancelled" ] ]

\* a closure that puts the subscriber back when it is not registered
unsubscribe_Toggles(r, s) ==
    [ r EXCEPT !.subscribers = IF s \in Range(@) THEN SetDelete(@, s) ELSE SetAdd(@, s),
               !.cancelled   = [ @ EXCEPT ![s] = "cancelled" ] ]

\* a closure that deletes nothing
unsubscribe_DeletesNothing(r, s) ==
    [ r EXCEPT !.cancelled = [ @ EXCEPT ![s] = "cancelled" ] ]

\* the closure subscribe returns; cancelled is history
unsubscribe(r, s) ==
    [ r EXCEPT !.subscribers = SetDelete(@, s),
               !.cancelled   = [ @ EXCEPT ![s] = "cancelled" ] ]

\* a call of isModalOpen(id) from outside: what it leaves and what it returns
queryIsModalOpen(r, id) ==
    [ r EXCEPT !.ret = isModalOpen(r.modals, id), !.asks = @ + 1 ]

\* history: an Escape picked id as the panel to close
Selected(r, id) ==
    IF id = Null THEN r ELSE [ r EXCEPT !.lastTarget = [ @ EXCEPT ![id] = FALSE ] ]

\* a listener without the test of event.key
keydown_AnyKey(r, key, thrower) ==
    LET lastOpenModal == getLastOpenModal(r.modals, r.openOrder)
    IN  IF Truthy(lastOpenModal)
        THEN closeModal(Selected(r, lastOpenModal), lastOpenModal, thrower)
        ELSE Selected(r, lastOpenModal)

\* the keydown listener the constructor installs
keydown(r, key, thrower) ==
    IF key = "Escape"
    THEN LET lastOpenModal == getLastOpenModal(r.modals, r.openOrder)
         IN  IF Truthy(lastOpenModal)
             THEN closeModal(Selected(r, lastOpenModal), lastOpenModal, thrower)
             ELSE Selected(r, lastOpenModal)
    ELSE r

(* -------------------------- useModalSubscription ----------------------- *)

\* no component is mounted
Unmounted ==
    [ phase |-> "off", id |-> Null, subId |-> Null, defaultOpen |-> FALSE, isOpen |-> FALSE ]

\* a useState initializer that opens the panel only when it has no entry
useStateInit_OnlyWhenUnknown(r, modalId, defaultOpen) ==
    LET currentState == isModalOpen(r.modals, modalId)
        r1 == [ r EXCEPT !.hook = [ phase |-> "rendered", id |-> modalId, subId |-> Null,
                                    defaultOpen |-> defaultOpen, isOpen |-> currentState ],
                         !.asks = @ + 1 ]
    IN  IF ~MapHas(r.modals, modalId) /\ defaultOpen
        THEN [ openModal(r1, modalId, Nobody) EXCEPT !.hook.isOpen = TRUE ]
        ELSE r1

\* the first render: the initializer passed to useState (asks: history, how many
\* isModalOpen calls were made in the call on record)
useStateInit(r, modalId, defaultOpen) ==
    LET currentState == isModalOpen(r.modals, modalId)
        r1 == [ r EXCEPT !.hook = [ phase |-> "rendered", id |-> modalId, subId |-> Null,
                                    defaultOpen |-> defaultOpen, isOpen |-> currentState ],
                         !.asks = @ + 1 ]
    IN  IF ~currentState /\ defaultOpen
        THEN [ openModal(r1, modalId, Nobody) EXCEPT !.hook.isOpen = TRUE ]
        ELSE r1

\* a later render that runs the initializer again when modalId has changed
rerender_ReInit(r, modalId, defaultOpen) ==
    IF modalId = r.hook.id
    THEN [ r EXCEPT !.hook.defaultOpen = defaultOpen ]
    ELSE [ useStateInit(r, modalId, defaultOpen)
             EXCEPT !.hook.subId = r.hook.subId, !.hook.phase = "rebound" ]

\* a later render, with the arguments of that render: useState keeps the state
\* and does not call its initializer; the effect is due when modalId is not
\* the one of its latest run
rerender(r, modalId, defaultOpen) ==
    [ r EXCEPT !.hook.id          = modalId,
               !.hook.defaultOpen = defaultOpen,
               !.hook.phase       = IF modalId = r.hook.subId THEN "active" ELSE "rebound" ]

\* the cleanup of the effect's latest run: the closure subscribe returned to it
cleanup(r) ==
    IF r.hook.subId = Null THEN r ELSE unsubscribe(r, HookFn(r.hook.subId))

\* an effect that subscribes without the cleanup of its previous run
useEffectRun_NoCleanup(r) ==
    subscribe([ r EXCEPT !.hook.phase = "active", !.hook.subId = r.hook.id ],
              HookFn(r.hook.id), Nobody)

\* the effect, run after the first render and after a render with another
\* modalId: the cleanup of the previous run, then
\* ModalMediator.subscribe(modals => ...), which calls the new subscriber
useEffectRun(r) ==
    subscribe([ cleanup(r) EXCEPT !.hook.phase = "active", !.hook.subId = r.hook.id ],
              HookFn(r.hook.id), Nobody)

\* an unmount that also closes the panel
unmount_ClosesPanel(r) ==
    closeModal([ cleanup(r) EXCEPT !.hook = Unmounted ], r.hook.id, Nobody)

\* unmount: the cleanup of the effect's latest run
unmount(r) == [ cleanup(r) EXCEPT !.hook = Unmounted ]

(* ------------------------------ calls ---------------------------------- *)

\* the registry as a call finds it; no delivery made yet, nothing thrown
Current ==
    [ modals      |-> modals,
      subscribers |-> subscribers,
      openOrder   |-> openOrder,
      rank        |-> rank,
      lastTarget  |-> lastTarget,
      cancelled   |-> cancelled,
      hook        |-> hook,
      tamper      |-> NoTamper,
      reenter     |-> NoReentry,
      stale       |-> FALSE,
      opens       |-> 0,
      asks        |-> 0,
      fresh       |-> {},
      closes      |-> 0,
      handled     |-> 0,
      target      |-> Null,
      custom      |-> FALSE,
      log         |-> << >>,
      thrown      |-> FALSE,
      raised      |-> FALSE,
      ret         |-> FALSE ]

\* the per-panel state machine: Unknown (no entry), Open, Closed
PanelStateOf(m, id) ==
    IF ~MapHas(m, id) THEN "unknown" ELSE IF m[id].isOpen THEN "open" ELSE "closed"

\* the record of a call: its arguments, the state its id had before it, what
\* the history said of its subscriber's closures before it, whether it is a
\* subscribe of a subscriber that was registered already, the
\* deliveries it made, how many openModal, isModalOpen and closeModal calls were
\* made in it, for a click its target, whether the backdrop had an onClick
\* prop and how often that was invoked, what a
\* subscriber did with its map and which call it made from its callback, whether
\* a subscriber was handed a map that differed from modals, whether a subscriber
\* raised an exception in it, whether it ended in an exception, and the boolean
\* it returned (FALSE when it returned none)
CallRecord(r, op, id, sub, key) ==
    [ op     |-> op,
      id     |-> id,
      sub    |-> sub,
      key    |-> key,
      prior  |-> PanelStateOf(modals, id),
      before |-> IF sub \in Observers THEN cancelled[sub] ELSE "never",
      again  |-> op = "subscribe" /\ sub \in Range(subscribers),
      log    |-> r.log,
      opens  |-> r.opens,
      asks   |-> r.asks,
      closes |-> r.closes,
      handled |-> r.handled,
      target |-> r.target,
      custom |-> r.custom,
      tamper |-> r.tamper,
      reenter |-> r.reenter,
      stale  |-> r.stale,
      raised |-> r.raised,
      thrown |-> r.thrown,
      ret    |-> r.ret ]

\* what a call leaves behind: the registry's fields, the closures handed out, and
\* the record of the call
Registry(r, hs, op, id, sub, key) ==
    /\ modals'      = r.modals
    /\ subscribers' = r.subscribers
    /\ openOrder'   = r.openOrder
    /\ handles'     = hs
    /\ rank'        = r.rank
    /\ lastTarget'  = r.lastTarget
    /\ last'        = CallRecord(r, op, id, sub, key)

\* a call in Spec, which keeps no history of the closures' use
Leaves(r, hs, op, id, sub, key) ==
    /\ Registry(r, hs, op, id, sub, key)
    /\ UNCHANGED << cancelled, hook, kept >>

\* no map has been kept
NothingKept == [ has |-> FALSE, taken |-> FALSE, snap |-> EmptyMap, shared |-> {} ]

Init ==
    /\ modals      = EmptyMap
    /\ subscribers = << >>
    /\ openOrder   = << >>
    /\ handles     = {}
    /\ rank        = [ x \in Ids |-> 0 ]
    /\ lastTarget  = [ x \in Ids |-> FALSE ]
    /\ cancelled   = [ o \in Observers \cup HookFns |-> "never" ]
    /\ hook        = Unmounted
    /\ kept        = NothingKept
    /\ last        = [ op       |-> "init",
                       id       |-> Null,
                       sub      |-> Nobody,
                       key      |-> Null,
                       prior    |-> "unknown",
                       before   |-> "never",
                       again    |-> FALSE,
                       log      |-> << >>,
                       opens    |-> 0,
                       asks     |-> 0,
                       closes   |-> 0,
                       handled  |-> 0,
                       target   |-> Null,
                       custom   |-> FALSE,
                       tamper   |-> NoTamper,
                       reenter  |-> NoReentry,
                       stale    |-> FALSE,
                       raised   |-> FALSE,
                       thrown   |-> FALSE,
                       ret      |-> FALSE ]

\* who throws in a call that notifies: one of the subscribers it will invoke that
\* can throw, or none
MayThrow == (Range(subscribers) \cap Throwers) \cup {Nobody}

\* a caller calls ModalMediator.openModal(id)
OpenModal ==
    \E id \in Ids, thrower \in MayThrow :
        Leaves(openModal(Current, id, thrower), handles, "open", id, Nobody, Null)

\* a caller calls ModalMediator.closeModal(id)
CloseModal ==
    \E id \in Ids, thrower \in MayThrow :
        Leaves(closeModal(Current, id, thrower), handles, "close", id, Nobody, Null)

\* a caller calls ModalMediator.subscribe(s); it gets the closure unless s threw
Subscribe ==
    \E s \in Observers : \E thrower \in ({s} \cap Throwers) \cup {Nobody} :
        Leaves(subscribe(Current, s, thrower),
               IF subscribe(Current, s, thrower).thrown THEN handles ELSE handles \cup {s},
               "subscribe", Null, s, Null)

\* a caller calls a closure that subscribe returned earlier
Unsubscribe ==
    \E s \in handles :
        Leaves(unsubscribe(Current, s), handles, "unsubscribe", Null, s, Null)

\* the document dispatches a keydown event; id records the listener's lastOpenModal
Keydown ==
    \E key \in Keys, thrower \in MayThrow :
        Leaves(keydown(Current, key, thrower), handles, "keydown",
               IF key = "Escape" THEN getLastOpenModal(modals, openOrder) ELSE Null,
               Nobody, key)

Next == OpenModal \/ CloseModal \/ Subscribe \/ Unsubscribe \/ Keydown

Spec == Init /\ [][Next]_vars

(* ------------------- calls, with the closures' history ------------------ *)
(* The same calls and isModalOpen, on one id fewer, with the history of    *)
(* which closures were called.                                             *)

FewIds == { IdPool[i] : i \in 1..(NumIds - 1) }

\* a call in SpecCalls
LeavesTracked(r, hs, op, id, sub, key) ==
    /\ Registry(r, hs, op, id, sub, key)
    /\ cancelled' = r.cancelled
    /\ UNCHANGED << hook, kept >>

CallOpenModal ==
    \E id \in FewIds, thrower \in MayThrow :
        LeavesTracked(openModal(Current, id, thrower), handles, "open", id, Nobody, Null)

CallCloseModal ==
    \E id \in FewIds, thrower \in MayThrow :
        LeavesTracked(closeModal(Current, id, thrower), handles, "close", id, Nobody, Null)

CallSubscribe ==
    \E s \in Observers : \E thrower \in ({s} \cap Throwers) \cup {Nobody} :
        LeavesTracked(subscribe(Current, s, thrower),
                      IF subscribe(Current, s, thrower).thrown
                      THEN handles ELSE handles \cup {s},
                      "subscribe", Null, s, Null)

CallUnsubscribe ==
    \E s \in handles :
        LeavesTracked(unsubscribe(Current, s), handles, "unsubscribe", Null, s, Null)

CallKeydown ==
    \E key \in Keys, thrower \in MayThrow :
        LeavesTracked(keydown(Current, key, thrower), handles, "keydown",
                      IF key = "Escape" THEN getLastOpenModal(modals, openOrder) ELSE Null,
                      Nobody, key)

\* a caller calls ModalMediator.isModalOpen(id)
CallIsModalOpen ==
    \E id \in FewIds :
        LeavesTracked(queryIsModalOpen(Current, id), handles, "isOpen", id, Nobody, Null)

NextCalls ==
    \/ CallOpenModal \/ CallCloseModal \/ CallSubscribe \/ CallUnsubscribe
    \/ CallKeydown \/ CallIsModalOpen

SpecCalls == Init /\ [][NextCalls]_vars

TypeOK ==
    /\ DOMAIN modals \subseteq Ids
    /\ \A id \in DOMAIN modals : modals[id] \in [ id : Ids, isOpen : BOOLEAN ]
    /\ Range(subscribers) \subseteq Observers \cup HookFns
    /\ Range(openOrder) \subseteq Ids
    /\ handles \subseteq Observers
    /\ cancelled \in [ Observers \cup HookFns -> { "never", "cancelled", "resubscribed" } ]
    /\ hook.phase \in { "off", "rendered", "active", "rebound" }
    /\ hook.id \in Ids \cup {Null}
    /\ hook.subId \in Ids \cup {Null}
    /\ hook.isOpen \in BOOLEAN /\ hook.defaultOpen \in BOOLEAN
    /\ kept.has \in BOOLEAN /\ kept.taken \in BOOLEAN
    /\ kept.shared \subseteq DOMAIN kept.snap /\ DOMAIN kept.snap \subseteq DOMAIN modals

(* --------------------- calls, with a component mounted ------------------ *)
(* One component that uses the hook, the subscribers of other clients,   *)
(* and the calls of any client.  No subscriber throws in a render: an      *)
(* exception there is left to React.                                       *)

\* a call in SpecAdapter
LeavesHook(r, hs, op, id, sub, key) ==
    /\ Registry(r, hs, op, id, sub, key)
    /\ hook' = r.hook
    /\ UNCHANGED << cancelled, kept >>

\* the closure whose unsubscribe the next cleanup calls
Registered == IF hook.subId = Null THEN Nobody ELSE HookFn(hook.subId)

\* the component is rendered for the first time
Activate ==
    /\ hook.phase = "off"
    /\ \E modalId \in FewIds, defaultOpen \in BOOLEAN :
          LeavesHook(useStateInit(Current, modalId, defaultOpen), handles,
                     "activate", modalId, Nobody, Null)

\* the component is rendered again, with the same or with other arguments
Rerender ==
    /\ hook.phase = "active"
    /\ \E modalId \in FewIds, defaultOpen \in BOOLEAN :
          LeavesHook(rerender(Current, modalId, defaultOpen), handles,
                     "rerender", modalId, Nobody, Null)

\* React runs the effect: after the first render, and after a render with
\* another modalId; sub records the closure its cleanup removed
Effect ==
    /\ hook.phase \in { "rendered", "rebound" }
    /\ LeavesHook(useEffectRun(Current), handles, "effect", hook.id, Registered, Null)

\* React unmounts the component
Deactivate ==
    /\ hook.phase # "off"
    /\ LeavesHook(unmount(Current), handles, "unmount", hook.id, Registered, Null)

AdapterOpenModal ==
    \E id \in FewIds, thrower \in MayThrow :
        LeavesHook(openModal(Current, id, thrower), handles, "open", id, Nobody, Null)

AdapterCloseModal ==
    \E id \in FewIds, thrower \in MayThrow :
        LeavesHook(closeModal(Current, id, thrower), handles, "close", id, Nobody, Null)

AdapterKeydown ==
    \E key \in Keys, thrower \in MayThrow :
        LeavesHook(keydown(Current, key, thrower), handles, "keydown",
                   IF key = "Escape" THEN getLastOpenModal(modals, openOrder) ELSE Null,
                   Nobody, key)

\* another client subscribes g, which does not throw in this first invocation
AdapterSubscribe ==
    \E s \in Throwers :
        LeavesHook(subscribe(Current, s, Nobody), handles \cup {s},
                   "subscribe", Null, s, Null)

\* that client calls a closure it got
AdapterUnsubscribe ==
    \E s \in handles :
        LeavesHook(unsubscribe(Current, s), handles, "unsubscribe", Null, s, Null)

NextAdapter ==
    \/ Activate \/ Rerender \/ Effect \/ Deactivate
    \/ AdapterOpenModal \/ AdapterCloseModal \/ AdapterKeydown
    \/ AdapterSubscribe \/ AdapterUnsubscribe

SpecAdapter == Init /\ [][NextAdapter]_vars

(* ------------------- clicks, with a backdrop mounted -------------------- *)
(* <ComposableModal.Backdrop onClick?> around other children and one       *)
(* <ComposableModal id>, whose hook is the one above: the backdrop's       *)
(* modalId is that child's id prop.  The backdrop's div is in the document *)
(* while the child is mounted, the panel container while the hook's isOpen *)
(* is true.  The props of a render are inputs: a click finds the backdrop  *)
(* with or without an onClick prop.                                        *)

\* where a click can land: the backdrop's div, another child of the backdrop, the
\* panel container, an element inside the panel container
Targets == { "backdrop", "sibling", "panel", "inside" }

\* the elements that are the panel container or inside it
InPanel == { "panel", "inside" }

\* ModalComponent's handler on the panel container
handleModalClick(event) == [ event EXCEPT !.stopped = TRUE ]

\* a backdrop handler without the target test
handleBackdropClick_AnyTarget(r, event, modalId, onClick, thrower) ==
    IF Truthy(modalId)
    THEN IF onClick
         THEN [ r EXCEPT !.handled = @ + 1 ]
         ELSE closeModal(r, modalId, thrower)
    ELSE r

\* ModalBackdrop's handler on its div, which is the event's currentTarget;
\* handled is history: how often the onClick prop was invoked
handleBackdropClick(r, event, modalId, onClick, thrower) ==
    IF event.target = "backdrop" /\ Truthy(modalId)
    THEN IF onClick
         THEN [ r EXCEPT !.handled = @ + 1 ]
         ELSE closeModal(r, modalId, thrower)
    ELSE r

\* a click in the document: the handlers on the way from the target up to the
\* backdrop run in turn, until one stops the propagation
click(r, target, modalId, onClick, thrower) ==
    LET event == [ target |-> target, stopped |-> FALSE ]
        atPanel == IF target \in InPanel THEN handleModalClick(event) ELSE event
        r0 == [ r EXCEPT !.target = target, !.custom = onClick ]
    IN  IF atPanel.stopped
        THEN r0
        ELSE handleBackdropClick(r0, atPanel, modalId, onClick, thrower)

\* ModalBackdrop's render: null when it has no ComposableModal child, its div
\* around the children otherwise; the child is there while it is mounted
BackdropRendered == hook.phase # "off"

\* ModalComponent's render: null unless the hook's isOpen is true
PanelRendered == hook.phase # "off" /\ hook.isOpen

\* the user clicks somewhere on the rendered backdrop or in the rendered panel
Click ==
    /\ BackdropRendered
    /\ \E target \in Targets, onClick \in BOOLEAN, thrower \in MayThrow :
          /\ target \in InPanel => PanelRendered
          /\ LeavesHook(click(Current, target, hook.id, onClick, thrower), handles,
                        "click", hook.id, Nobody, Null)

NextBackdrop ==
    \/ Activate \/ Effect \/ Deactivate
    \/ AdapterOpenModal \/ AdapterCloseModal \/ AdapterSubscribe
    \/ Click

SpecBackdrop == Init /\ [][NextBackdrop]_vars

(* ------------------ calls, with a subscriber that writes ---------------- *)
(* The calls when the subscriber f acts on the map it is handed.  One     *)
(* subscriber acts, once in a call, so the map it acts on is the copy as   *)
(* the registry made it.                                                   *)

Tamperer == "f"

Tampers ==
    {NoTamper} \cup [ by : {Tamperer}, kind : { "set", "delete", "write" },
                      id : FewIds, isOpen : BOOLEAN ]

\* the registry as a call finds it, and what f will do with the map it gets
CurrentWith(t) == [ Current EXCEPT !.tamper = t ]

TamperOpenModal ==
    \E id \in FewIds, t \in Tampers :
        Leaves(openModal(CurrentWith(t), id, Nobody), handles, "open", id, Nobody, Null)

TamperCloseModal ==
    \E id \in FewIds, t \in Tampers :
        Leaves(closeModal(CurrentWith(t), id, Nobody), handles, "close", id, Nobody, Null)

TamperSubscribe ==
    \E s \in Observers, t \in Tampers :
        Leaves(subscribe(CurrentWith(t), s, Nobody), handles \cup {s},
               "subscribe", Null, s, Null)

TamperUnsubscribe ==
    \E s \in handles :
        Leaves(unsubscribe(Current, s), handles, "unsubscribe", Null, s, Null)

TamperKeydown ==
    \E key \in Keys, t \in Tampers :
        Leaves(keydown(CurrentWith(t), key, Nobody), handles, "keydown",
               IF key = "Escape" THEN getLastOpenModal(modals, openOrder) ELSE Null,
               Nobody, key)

NextTamper ==
    \/ TamperOpenModal \/ TamperCloseModal \/ TamperSubscribe \/ TamperUnsubscribe
    \/ TamperKeydown

SpecTamper == Init /\ [][NextTamper]_vars

(* ---------------- calls, with a subscriber that keeps a map ------------- *)
(* A subscriber keeps a reference to a map it was handed and reads it      *)
(* after later calls.  new Map(this.modals) binds every key to the object  *)
(* this.modals binds it to: the kept map shows, for such a key, what that  *)
(* object holds now, until this.modals binds the key to a new object.  No  *)
(* subscriber writes to a map, calls back or throws.                       *)

\* the map handed out in the call r is kept: it shares every entry object
KeptNow(r) ==
    LET snap == r.log[Len(r.log)].snap
    IN  [ has |-> TRUE, taken |-> TRUE, snap |-> snap, shared |-> DOMAIN snap ]

\* the map k kept earlier, as it reads after the call r
KeptAfter(k, r) ==
    LET shared == k.shared \ r.fresh
    IN  [ has    |-> k.has,
          taken  |-> FALSE,
          snap   |-> [ id \in DOMAIN k.snap |->
                         IF id \in shared THEN r.modals[id] ELSE k.snap[id] ],
          shared |-> shared ]

\* a call in SpecKept: the subscriber keeps the map of this call, or the one it has
LeavesKept(r, hs, op, id, sub, key) ==
    /\ Registry(r, hs, op, id, sub, key)
    /\ UNCHANGED << cancelled, hook >>
    /\ \E keep \in BOOLEAN :
          kept' = IF keep /\ r.log # << >> THEN KeptNow(r) ELSE KeptAfter(kept, r)

KeptOpenModal ==
    \E id \in FewIds :
        LeavesKept(openModal(Current, id, Nobody), handles, "open", id, Nobody, Null)

KeptCloseModal ==
    \E id \in FewIds :
        LeavesKept(closeModal(Current, id, Nobody), handles, "close", id, Nobody, Null)

KeptSubscribe ==
    \E s \in Observers :
        LeavesKept(subscribe(Current, s, Nobody), handles \cup {s},
                   "subscribe", Null, s, Null)

KeptKeydown ==
    \E key \in Keys :
        LeavesKept(keydown(Current, key, Nobody), handles, "keydown",
                   IF key = "Escape" THEN getLastOpenModal(modals, openOrder) ELSE Null,
                   Nobody, key)

NextKept == KeptOpenModal \/ KeptCloseModal \/ KeptSubscribe \/ KeptKeydown

SpecKept == Init /\ [][NextKept]_vars

(* --------------- calls, with a subscriber that calls back --------------- *)
(* The calls when the subscriber f calls openModal, closeModal or a        *)
(* closure that subscribe has returned, from inside its callback, the      *)
(* first time an outermost call invokes it.  No subscriber throws.         *)

Reentrant == "f"

Reentries ==
    {NoReentry}
        \cup [ by : {Reentrant}, op : { "open", "close" }, id : FewIds,
               sub : {Nobody}, done : {FALSE} ]
        \cup [ by : {Reentrant}, op : { "unsubscribe" }, id : {Null},
               sub : handles, done : {FALSE} ]

\* the registry as a call finds it, and the call f will make from its callback
CurrentReentering(p) == [ Current EXCEPT !.reenter = p ]

ReentrantOpenModal ==
    \E id \in FewIds, p \in Reentries :
        Leaves(openModal(CurrentReentering(p), id, Nobody), handles, "open", id, Nobody, Null)

ReentrantCloseModal ==
    \E id \in FewIds, p \in Reentries :
        Leaves(closeModal(CurrentReentering(p), id, Nobody), handles, "close", id, Nobody, Null)

ReentrantSubscribe ==
    \E s \in Observers, p \in Reentries :
        Leaves(subscribe(CurrentReentering(p), s, Nobody), handles \cup {s},
               "subscribe", Null, s, Null)

ReentrantUnsubscribe ==
    \E s \in handles :
        Leaves(unsubscribe(Current, s), handles, "unsubscribe", Null, s, Null)

ReentrantKeydown ==
    \E key \in Keys, p \in Reentries :
        Leaves(keydown(CurrentReentering(p), key, Nobody), handles, "keydown",
               IF key = "Escape" THEN getLastOpenModal(modals, openOrder) ELSE Null,
               Nobody, key)

NextReentrant ==
    \/ ReentrantOpenModal \/ ReentrantCloseModal \/ ReentrantSubscribe
    \/ ReentrantUnsubscribe \/ ReentrantKeydown

SpecReentrant == Init /\ [][NextReentrant]_vars

(* ------------------------------ claims --------------------------------- *)
(* A claim about what one call does is a formula about a step: the         *)
(* unprimed variables are the registry as the call found it, the primed    *)
(* ones what it left, and last' is the record of the call.  Such a formula *)
(* never reads the unprimed last, and a keydown of another key than Escape *)
(* changes last alone, so every call is taken from every reachable         *)
(* registry state by a step that changes vars.                             *)

\* the panels that are open in m
OpenIds(m) == { id \in DOMAIN m : m[id].isOpen }

\* how often a call invoked subscriber o
CallsTo(log, o) == Cardinality({ i \in 1..Len(log) : log[i].to = o })

\* the open panel whose latest openModal call is the most recent
MostRecentlyOpened(m, rk) ==
    CHOOSE id \in OpenIds(m) : \A x \in OpenIds(m) : rk[x] <= rk[id]

\* every subscriber in subs was invoked exactly once, nobody else was, and every
\* map handed out shows id with the flag isOpen
EachOnceShowing(log, subs, id, isOpen) ==
    /\ \A o \in Range(subs) : CallsTo(log, o) = 1
    /\ Len(log) = Len(subs)
    /\ \A i \in 1..Len(log) :
          /\ MapHas(log[i].snap, id)
          /\ log[i].snap[id] = ModalState(id, isOpen)

\* how often x occurs in order
Count(order, x) == Cardinality({ i \in 1..Len(order) : order[i] = x })

EscapeStep == last'.op = "keydown" /\ last'.key = "Escape"

\* C1: after any sequence of open, close and Escape calls, a panel is open iff the
\* latest call that targeted it (openModal(id), closeModal(id), or an Escape that
\* picked id as the panel to close) was openModal(id); a panel never passed to
\* openModal is not open.
C1_OpenIffLastTargetedByOpen ==
    \A id \in Ids :
        /\ isModalOpen(modals, id) <=> lastTarget[id]
        /\ rank[id] = 0 => ~isModalOpen(modals, id)

\* C2: an Escape received while a panel is open closes exactly the open panel
\* whose latest open is the most recent; every other panel keeps its state, and
\* every subscriber is invoked exactly once with a map showing that panel closed.
C2_EscapeClosesMostRecentlyOpened ==
    [][ (EscapeStep /\ OpenIds(modals) # {}) =>
          LET top == MostRecentlyOpened(modals, rank)
          IN  /\ PanelStateOf(modals', top) = "closed"
              /\ \A id \in Ids \ {top} :
                    PanelStateOf(modals', id) = PanelStateOf(modals, id)
              /\ EachOnceShowing(last'.log, subscribers, top, FALSE) ]_vars

\* C3: successive Escapes close the open panels one per signal, latest opened
\* first, and an Escape with no panel open changes nothing and notifies nobody.
\* Stated for one signal; n signals in a row follow by induction on n.
C3_EscapesCloseInReverseOpenOrder ==
    [][ EscapeStep =>
          IF OpenIds(modals) # {}
          THEN OpenIds(modals') = OpenIds(modals) \ { MostRecentlyOpened(modals, rank) }
          ELSE modals' = modals /\ openOrder' = openOrder /\ last'.log = << >> ]_vars

\* C4: an Escape received while no panel is open (no entry at all, or every entry
\* closed) leaves modals and openOrder as they are and invokes no subscriber.
C4_EscapeWithNothingOpen ==
    [][ (EscapeStep /\ OpenIds(modals) = {}) =>
          /\ modals' = modals
          /\ openOrder' = openOrder
          /\ subscribers' = subscribers
          /\ last'.log = << >> ]_vars

\* an Escape arrived with entries in the store, all closed, and a subscriber present
C4_Witness ==
    /\ last.op = "keydown" /\ last.key = "Escape"
    /\ last.id = Null
    /\ DOMAIN modals # {} /\ OpenIds(modals) = {}
    /\ subscribers # << >>

\* C5: when no subscriber throws, openModal(id) - for an unknown, a closed or an
\* open id - invokes each subscriber registered at the call exactly once, with a
\* map in which id's entry is {id, isOpen: true}.
C5_OpenNotifiesEachOnce ==
    [][ (last'.op = "open" /\ ~last'.thrown) =>
          EachOnceShowing(last'.log, subscribers, last'.id, TRUE) ]_vars

\* an openModal of a panel that was already open, with two subscribers
C5_Witness ==
    /\ last.op = "open" /\ last.prior = "open" /\ ~last.thrown
    /\ Len(subscribers) = 2 /\ Len(last.log) = 2

\* C6: after openModal(id), id is the tail of openOrder and occurs once in it,
\* and every other id occurs as often as before and in the same relative order.
C6_OpenMovesIdToTail ==
    [][ last'.op = "open" =>
          LET id == last'.id
          IN  /\ openOrder' # << >>
              /\ openOrder'[Len(openOrder')] = id
              /\ Count(openOrder', id) = 1
              /\ Without(openOrder', id) = Without(openOrder, id) ]_vars

\* an openModal of an id that was tracked already, with two other ids tracked
C6_Witness ==
    /\ last.op = "open" /\ last.prior # "unknown"
    /\ Len(openOrder) = 3

C8_CloseOfClosedIsSilent ==
    [][ (last'.op = "close" /\ PanelStateOf(modals, last'.id) = "closed") =>
          /\ modals' = modals
          /\ openOrder' = openOrder
          /\ last'.log = << >> ]_vars

\* C8 amended: closeModal(id) on a panel that is Closed leaves the panel Closed
\* and modals, openOrder and the subscribers as they are, but it does notify: the
\* subscribers are invoked in order with the unchanged map, up to one that throws.
C8_CloseOfClosedStillNotifies ==
    [][ (last'.op = "close" /\ PanelStateOf(modals, last'.id) = "closed") =>
          /\ modals' = modals
          /\ openOrder' = openOrder
          /\ subscribers' = subscribers
          /\ subscribers # << >> => last'.log # << >>
          /\ \A i \in 1..Len(last'.log) :
                last'.log[i] = Delivery(subscribers[i], modals)
          /\ ~last'.thrown => Len(last'.log) = Len(subscribers) ]_vars

\* a closeModal of a Closed panel has just invoked a subscriber
C8_Witness ==
    /\ last.op = "close" /\ last.prior = "closed"
    /\ last.log # << >>
    /\ PanelStateOf(modals, last.id) = "closed"

\* C9: closeModal(id) for an id without an entry changes nothing: no entry is
\* created, openOrder is unchanged, no subscriber is invoked, isModalOpen(id)
\* stays false.
C9_CloseOfUnknownIsNoOp ==
    [][ (last'.op = "close" /\ ~MapHas(modals, last'.id)) =>
          /\ modals' = modals
          /\ openOrder' = openOrder
          /\ subscribers' = subscribers
          /\ last'.log = << >>
          /\ ~isModalOpen(modals', last'.id) ]_vars

\* a closeModal of an unknown id, with other panels recorded and a subscriber present
C9_Witness ==
    /\ last.op = "close" /\ last.prior = "unknown"
    /\ ~MapHas(modals, last.id)
    /\ OpenIds(modals) # {} /\ subscribers # << >>

\* C10: subscribe(f) invokes f exactly once, and nobody else, with a map equal to
\* the whole store at that moment (empty when nothing was opened), before it
\* returns the unsubscribe closure; the store is left as it was.
C10_SubscribeCallsOnceWithStore ==
    [][ last'.op = "subscribe" =>
          /\ last'.log = << Delivery(last'.sub, modals) >>
          /\ modals' = modals
          /\ last'.sub \in handles' \ handles => ~last'.thrown ]_vars

\* a subscribe made while the store has an open and a closed panel
C10_Witness ==
    /\ last.op = "subscribe" /\ ~last.thrown
    /\ last.sub \in handles
    /\ \E a, b \in DOMAIN modals : modals[a].isOpen /\ ~modals[b].isOpen
    /\ Len(last.log) = 1 /\ last.log[1].snap = modals

\* a call that may fan out to the subscribers
NotifyingStep == last'.op \in { "open", "close", "keydown" }

\* C11: from the call of a closure returned for subscriber o until o is passed to
\* subscribe again, no openModal, closeModal or keydown invokes o.
C11_CancelledIsNotInvoked ==
    [][ NotifyingStep =>
          \A o \in Observers :
              cancelled[o] = "cancelled" => CallsTo(last'.log, o) = 0 ]_vars

\* an Escape closed a panel and invoked g while f's closure had been called
C11_Witness ==
    /\ last.op = "keydown" /\ last.key = "Escape" /\ last.prior = "open"
    /\ cancelled["f"] = "cancelled"
    /\ CallsTo(last.log, "g") = 1 /\ CallsTo(last.log, "f") = 0

\* C12 as stated: a second or later call of a closure changes nothing, whatever
\* calls - subscribe calls included - were made since its first call.  All the
\* closures returned for one subscriber do the same, delete that subscriber, so
\* a call for a subscriber whose closure was called before is such a later call.
C12_LaterCallsChangeNothing ==
    [][ (last'.op = "unsubscribe" /\ cancelled[last'.sub] # "never") =>
          subscribers' = subscribers ]_vars

\* C12 amended: a second or later call of a closure changes neither the
\* subscribers nor modals nor openOrder, and invokes nobody, as long as its
\* subscriber was not passed to subscribe again since the closure's latest call;
\* when it was, the call removes the subscriber once more.
C12_LaterCallsUntilResubscribed ==
    [][ last'.op = "unsubscribe" =>
          LET s == last'.sub
          IN  /\ last'.log = << >>
              /\ cancelled[s] = "cancelled" =>
                    /\ subscribers' = subscribers
                    /\ modals' = modals
                    /\ openOrder' = openOrder
              /\ cancelled[s] = "resubscribed" =>
                    /\ s \notin Range(subscribers')
                    /\ Range(subscribers') = Range(subscribers) \ {s} ]_vars

\* f's closure was called again, with g subscribed and a panel open
C12_Witness ==
    /\ last.op = "unsubscribe" /\ last.sub = "f" /\ last.before = "cancelled"
    /\ "g" \in Range(subscribers)
    /\ OpenIds(modals) # {}

\* C13: a call of the closure of one subscriber leaves every other subscriber
\* registered, at its place in the Set, and modals and openOrder as they are;
\* and being registered means, after such a call as before it, that a later
\* openModal, or closeModal of an id with an entry, in which no subscriber
\* throws invokes the subscriber exactly once.
C13_UnsubscribeLeavesTheOthers ==
    [][ /\ last'.op = "unsubscribe" =>
              /\ subscribers' = Without(subscribers, last'.sub)
              /\ \A o \in Range(subscribers) \ { last'.sub } : o \in Range(subscribers')
              /\ modals' = modals
              /\ openOrder' = openOrder
        /\ ( /\ last'.op = "open" \/ (last'.op = "close" /\ MapHas(modals, last'.id))
             /\ \E o \in Observers : cancelled[o] = "cancelled"
             /\ ~last'.thrown ) =>
              \A o \in Range(subscribers) : CallsTo(last'.log, o) = 1 ]_vars

\* f's closure was called for the first time while g was subscribed as well, with
\* a panel open and a panel closed
C13_Witness ==
    /\ last.op = "unsubscribe" /\ last.sub = "f" /\ last.before = "never"
    /\ subscribers = << "g" >>
    /\ \E a, b \in DOMAIN modals : modals[a].isOpen /\ ~modals[b].isOpen

\* what the call recorded in c leaves when no subscriber acts on its map
Untampered(c) ==
    IF c.op = "open" THEN openModal(Current, c.id, Nobody)
    ELSE IF c.op = "close" THEN closeModal(Current, c.id, Nobody)
    ELSE IF c.op = "subscribe" THEN subscribe(Current, c.sub, Nobody)
    ELSE IF c.op = "keydown" THEN keydown(Current, c.key, Nobody)
    ELSE Current

\* C14: whatever a subscriber does with a map it is handed - set or delete an
\* entry, assign to a field of an entry it gets from the map - the call leaves
\* modals, openOrder and every isModalOpen(id) as it leaves them when the
\* subscriber does nothing.
C14_TamperingChangesNothing ==
    [][ /\ modals' = Untampered(last').modals
        /\ openOrder' = Untampered(last').openOrder
        /\ \A id \in Ids :
              isModalOpen(modals', id) = isModalOpen(Untampered(last').modals, id) ]_vars

\* C15: an exception a subscriber raises - in the invocation subscribe makes, or
\* in the fan-out of an openModal or a closeModal - leaves that subscribe,
\* openModal or closeModal call as an exception, and the subscriber that raised it
\* is the last one the call invoked.
C15_SubscriberErrorsPropagate ==
    (last.op \in { "subscribe", "open", "close" } /\ last.raised) =>
        /\ last.thrown
        /\ last.log # << >>
        /\ last.log[Len(last.log)].to \in Throwers

\* g threw in the fan-out of an openModal, before f was invoked
C15_Witness ==
    /\ last.op = "open" /\ last.raised /\ last.thrown
    /\ subscribers = << "g", "f" >>
    /\ Len(last.log) = 1

\* C16: isModalOpen(id) returns the isOpen flag of id's entry, false when id has
\* no entry, and leaves modals, openOrder and the subscribers as they are: it
\* creates no entry and invokes no subscriber.
C16_IsModalOpenIsAPureQuery ==
    [][ last'.op = "isOpen" =>
          LET id == last'.id
          IN  /\ last'.ret = (MapHas(modals, id) /\ modals[id].isOpen)
              /\ modals' = modals
              /\ openOrder' = openOrder
              /\ subscribers' = subscribers
              /\ last'.log = << >>
              /\ ~MapHas(modals, id) => ~MapHas(modals', id) ]_vars

\* isModalOpen was asked about a closed panel while another panel was open and a
\* subscriber was registered, and answered false
C16_Witness ==
    /\ last.op = "isOpen" /\ last.prior = "closed"
    /\ last.ret = FALSE
    /\ OpenIds(modals) # {} /\ subscribers # << >>

\* the ids whose entry in m2 is not what it is in m1 (made, removed or altered)
Changed(m1, m2) ==
    { x \in Ids : \/ MapHas(m1, x) # MapHas(m2, x)
                  \/ MapHas(m1, x) /\ MapHas(m2, x) /\ m1[x] # m2[x] }

\* C17: openModal(id) and closeModal(id) change no entry but id's, a keydown
\* changes the entry of at most one id, and isModalOpen of every id whose entry
\* was not changed is what it was.
C17_PanelsAreIndependent ==
    [][ /\ last'.op \in { "open", "close" } => Changed(modals, modals') \subseteq { last'.id }
        /\ last'.op = "keydown" => Cardinality(Changed(modals, modals')) <= 1
        /\ \A x \in Ids \ Changed(modals, modals') :
              isModalOpen(modals', x) = isModalOpen(modals, x) ]_vars

\* an openModal of a closed panel, with one other panel open and one closed
C17_Witness ==
    /\ last.op = "open" /\ last.prior = "closed"
    /\ \E a, b \in DOMAIN modals \ { last.id } : modals[a].isOpen /\ ~modals[b].isOpen

\* the ids that were passed to openModal at least once
EverOpened(rk) == { id \in Ids : rk[id] > 0 }

\* C18: no call removes an entry from modals: the ids with an entry are the ids
\* ever passed to openModal, as many entries as such ids, and a closeModal leaves
\* the entry of its id in place with isOpen false.
C18_EntriesAreNeverRemoved ==
    [][ /\ DOMAIN modals \subseteq DOMAIN modals'
        /\ DOMAIN modals' = EverOpened(rank')
        /\ Cardinality(DOMAIN modals') = Cardinality(EverOpened(rank'))
        /\ (last'.op = "close" /\ MapHas(modals, last'.id)) =>
              modals'[last'.id] = ModalState(last'.id, FALSE) ]_vars

\* every id was opened and the last of them has just been closed: as many
\* entries as ids, all closed
C18_Witness ==
    /\ last.op = "close" /\ last.prior = "open"
    /\ DOMAIN modals = Ids
    /\ Cardinality(DOMAIN modals) = NumIds
    /\ OpenIds(modals) = {}

\* C19: a keydown event whose key is not 'Escape' changes no panel state and
\* invokes no subscriber, whatever panels are open.
C19_OtherKeysDoNothing ==
    [][ (last'.op = "keydown" /\ last'.key # "Escape") =>
          /\ modals' = modals
          /\ openOrder' = openOrder
          /\ subscribers' = subscribers
          /\ last'.log = << >>
          /\ ~last'.thrown ]_vars

\* an Enter keydown with two panels open and two subscribers registered
C19_Witness ==
    /\ last.op = "keydown" /\ last.key = "Enter"
    /\ Cardinality(OpenIds(modals)) = 2
    /\ Len(subscribers) = 2

RegisteredHooks(subs) == Range(subs) \cap HookFns

\* C21: once its effect has run and until it is unmounted, the component has
\* exactly one of its closures among the subscribers, the one of the effect's
\* latest run, and none before the first effect and after the unmount; an
\* effect run after a change of modalId removes the old closure and appends the
\* new one, the unmount removes the closure, both leave the other subscribers
\* in their order, and a render - with the same or another modalId - by itself
\* subscribes and unsubscribes nothing.
C21_OneRegistrationWhileMounted ==
    [][ /\ hook'.phase \in { "active", "rebound" } =>
              /\ hook'.subId # Null
              /\ RegisteredHooks(subscribers') = { HookFn(hook'.subId) }
        /\ hook'.phase = "active" => hook'.subId = hook'.id
        /\ hook'.phase \in { "off", "rendered" } => RegisteredHooks(subscribers') = {}
        /\ last'.op = "effect" =>
              /\ subscribers' =
                    Append(Without(subscribers, last'.sub), HookFn(last'.id))
              /\ last'.log = << Delivery(HookFn(last'.id), modals) >>
        /\ last'.op = "unmount" => subscribers' = Without(subscribers, last'.sub)
        /\ last'.op = "rerender" =>
              /\ subscribers' = subscribers
              /\ last'.log = << >> ]_vars

\* the effect ran after a render with another modalId, while g was subscribed:
\* its cleanup removed the old closure and the new one is registered after g
C21_Witness ==
    /\ last.op = "effect" /\ last.sub \in HookFns
    /\ last.sub # HookFn(hook.id)
    /\ hook.phase = "active"
    /\ subscribers = << "g", HookFn(hook.id) >>

\* C22 as stated: whenever the effect has run for the modalId of the latest
\* render (and no call is in progress), the hook's isOpen is
\* isModalOpen(modalId).
C22_HookMirrorsRegistry ==
    hook.phase = "active" => hook.isOpen = isModalOpen(modals, hook.id)

\* C22 amended: once the effect has run for the modalId of the latest render,
\* a call that invokes the hook's closure leaves the hook's isOpen equal to
\* isModalOpen(modalId), false when modalId has no entry; a call that invokes
\* nobody and throws nothing leaves both the hook's isOpen and
\* isModalOpen(modalId) as they were; a call in which a subscriber registered
\* before the hook's closure throws leaves the hook's isOpen as it was, whatever
\* the call did to modalId's entry.
C22_HookFollowsWhatItIsTold ==
    [][ hook'.phase = "active" =>
          LET id == hook'.id
          IN  IF CallsTo(last'.log, HookFn(id)) > 0
              THEN hook'.isOpen = isModalOpen(modals', id)
              ELSE /\ hook.phase = "active" /\ hook.id = id => hook'.isOpen = hook.isOpen
                   /\ (hook.phase = "active" /\ hook.id = id /\ ~last'.thrown) =>
                         isModalOpen(modals', id) = isModalOpen(modals, id) ]_vars

\* an Escape closed the panel the hook is bound to, with g subscribed before the
\* hook's closure and not throwing: the hook's isOpen is false
C22_Witness ==
    /\ last.op = "keydown" /\ last.key = "Escape" /\ last.id = hook.id
    /\ last.prior = "open" /\ ~last.thrown
    /\ hook.phase = "active" /\ ~hook.isOpen
    /\ subscribers = << "g", HookFn(hook.id) >>

\* C23: after the first render, a render with another defaultOpen or another
\* modalId, and the effect that follows it, call neither openModal nor
\* isModalOpen and leave modals and openOrder as they are; the render leaves
\* the hook's isOpen as it was.
C23_DefaultOpenOnlyAtFirstRender ==
    [][ last'.op \in { "rerender", "effect" } =>
          /\ last'.opens = 0
          /\ last'.asks = 0
          /\ modals' = modals
          /\ openOrder' = openOrder
          /\ last'.op = "rerender" => hook'.isOpen = hook.isOpen ]_vars

\* the component was rendered again, now with defaultOpen and with a modalId that
\* has a closed entry: the panel stays closed
C23_Witness ==
    /\ last.op = "rerender" /\ last.prior = "closed"
    /\ hook.phase = "rebound" /\ hook.defaultOpen
    /\ PanelStateOf(modals, hook.id) = "closed"

\* C24: a click whose target is the backdrop itself, on a backdrop without an
\* onClick prop, makes exactly one closeModal call, with the id of the
\* backdrop's ComposableModal child, whatever string that id is.
C24_BackdropClickCloses ==
    [][ (last'.op = "click" /\ last'.target = "backdrop" /\ ~last'.custom) =>
          /\ last'.closes = 1
          /\ ~lastTarget'[last'.id]
          /\ ~isModalOpen(modals', last'.id) ]_vars

\* C25: a click whose target is the backdrop itself, on a backdrop with an
\* onClick prop, invokes that handler exactly once and makes no closeModal
\* call.
C25_CustomOnClickReplacesClose ==
    [][ (last'.op = "click" /\ last'.target = "backdrop" /\ last'.custom) =>
          /\ last'.handled = 1
          /\ last'.closes = 0
          /\ modals' = modals ]_vars

\* C26: a click whose target is not the backdrop itself (the panel container,
\* an element inside it, another child of the backdrop) makes no closeModal
\* call, does not invoke the backdrop's onClick prop, and leaves the registry
\* and the hook as they were.
C26_OnlyBackdropTargetActs ==
    [][ (last'.op = "click" /\ last'.target # "backdrop") =>
          /\ last'.closes = 0
          /\ last'.handled = 0
          /\ last'.log = << >>
          /\ modals' = modals
          /\ hook' = hook ]_vars

\* a click inside the open panel, on a backdrop with an onClick prop: the panel is
\* still open
C26_Witness ==
    /\ last.op = "click" /\ last.target = "inside" /\ last.custom
    /\ hook.phase = "active" /\ hook.isOpen
    /\ isModalOpen(modals, hook.id)

\* C27: after every call openOrder holds no id twice, the ids in it are the ids
\* with an entry in modals, its length is the number of distinct ids ever
\* passed to openModal, and no call makes it shorter.
C27_OpenOrderListsTheEntries ==
    [][ /\ \A id \in Ids : Count(openOrder', id) <= 1
        /\ Range(openOrder') = DOMAIN modals'
        /\ Len(openOrder') = Cardinality(EverOpened(rank'))
        /\ Len(openOrder') >= Len(openOrder) ]_vars

\* every id has been opened, one of them again after a close, and one is closed
C27_Witness ==
    /\ last.op = "open" /\ last.prior = "closed"
    /\ Len(openOrder) = NumIds
    /\ \E id \in Ids : PanelStateOf(modals, id) = "closed"

\* the calls C28 counts: openModal of any id, closeModal of an id with an entry
CountedCall(c) == c.op = "open" \/ (c.op = "close" /\ c.prior # "unknown")

\* C28: when no subscriber throws, each openModal(id) and each closeModal(id) of an
\* id with an entry invokes every registered subscriber exactly once, within
\* the call, with a map equal to modals as the call leaves it, and leaves the
\* subscriber registered; so n such calls give a subscriber n maps, in the
\* order of the calls, the k-th equal to modals right after the k-th call.
C28_OneSnapshotPerCall ==
    [][ (CountedCall(last') /\ ~last'.raised) =>
          /\ Len(last'.log) = Len(subscribers)
          /\ subscribers' = subscribers
          /\ \A i \in 1..Len(last'.log) :
                /\ last'.log[i].to = subscribers[i]
                /\ last'.log[i].snap = modals' ]_vars

\* a closeModal of an open panel, of three tracked, with both subscribers
\* registered and both handed the store as the call left it
C28_Witness ==
    /\ CountedCall(last) /\ last.op = "close" /\ last.prior = "open" /\ ~last.raised
    /\ Len(subscribers) = 2 /\ Len(last.log) = 2
    /\ Cardinality(DOMAIN modals) = NumIds
    /\ \A i \in 1..2 : last.log[i].snap = modals

\* the map of the latest delivery to o in log, which has one
LastSeen(log, o) ==
    LET i == CHOOSE k \in 1..Len(log) :
                 /\ log[k].to = o
                 /\ \A j \in (k + 1)..Len(log) : log[j].to # o
    IN  log[i].snap

\* C29: also when a subscriber calls openModal or closeModal from inside its
\* callback, every map handed to a subscriber equals modals at that moment, and
\* when the outermost call returns the latest map each registered subscriber
\* was handed in it equals modals.
C29_SnapshotsAreCurrentUnderReentrancy ==
    [][ last'.op \in { "open", "close", "keydown", "subscribe" } =>
          /\ ~last'.stale
          /\ \A o \in Range(subscribers') :
                CallsTo(last'.log, o) > 0 => LastSeen(last'.log, o) = modals' ]_vars

\* the place of subscriber o in subs (0 when it is not in it)
IndexOf(subs, o) ==
    IF o \in Range(subs) THEN CHOOSE i \in 1..Len(subs) : subs[i] = o ELSE 0

\* C30: when a subscriber throws in a call that notifies, the subscribers invoked
\* in that call are the ones registered before the thrower and the thrower, each
\* once and in registration order; no subscriber registered after it is invoked.
C30_ThrowCutsTheFanOutShort ==
    [][ (NotifyingStep /\ last'.thrown) =>
          LET log == last'.log
              thrower == log[Len(log)].to
          IN  /\ log # << >>
              /\ Len(log) = IndexOf(subscribers, thrower)
              /\ \A i \in 1..Len(log) : log[i].to = subscribers[i]
              /\ \A i \in (Len(log) + 1)..Len(subscribers) :
                    CallsTo(log, subscribers[i]) = 0 ]_vars

\* g threw in an openModal with f registered after it: f was not invoked
C30_Witness ==
    /\ last.op = "open" /\ last.thrown
    /\ subscribers = << "g", "f" >>
    /\ CallsTo(last.log, "g") = 1 /\ CallsTo(last.log, "f") = 0

\* f is registered before g, which threw in a closeModal: f was invoked
C30_WitnessBefore ==
    /\ last.op = "close" /\ last.thrown
    /\ subscribers = << "f", "g" >>
    /\ CallsTo(last.log, "f") = 1 /\ CallsTo(last.log, "g") = 1

\* C31: in a call that notifies, every subscriber is handed a map equal to
\* modals as the call set it, whatever the subscribers invoked before it did
\* with the map they were handed.
C31_TamperingIsInvisibleToOthers ==
    [][ NotifyingStep =>
          \A i \in 1..Len(last'.log) :
              last'.log[i].snap = Untampered(last').modals ]_vars

\* C32: the backdrop's div is in the document only while the panel it wraps is
\* open, so a click on the backdrop finds the panel open and no closeModal call
\* comes from a backdrop whose panel is closed.
C32_NoBackdropAroundClosedPanel ==
    [][ /\ BackdropRendered' => PanelRendered'
        /\ (last'.op = "click" /\ last'.target = "backdrop") =>
              /\ PanelRendered
              /\ last'.closes > 0 => last'.prior = "open" ]_vars

\* C33: an openModal(id) or closeModal(id) that ends in a subscriber's exception
\* leaves modals and openOrder as the same call leaves them when nobody throws:
\* isModalOpen(id) is true after the openModal and false after the closeModal,
\* and after the openModal id is the tail of openOrder.
C33_NoRollbackOnThrow ==
    [][ (last'.op \in { "open", "close" } /\ last'.thrown) =>
          LET id == last'.id
              quiet == Untampered(last')
          IN  /\ modals' = quiet.modals
              /\ openOrder' = quiet.openOrder
              /\ isModalOpen(modals', id) = (last'.op = "open")
              /\ last'.op = "open" =>
                    /\ openOrder' # << >>
                    /\ openOrder'[Len(openOrder')] = id ]_vars

\* an openModal of a closed panel that was not the tail of openOrder ended in g's
\* exception: the panel is open and is the tail
C33_Witness ==
    /\ last.op = "open" /\ last.thrown /\ last.prior = "closed"
    /\ Len(openOrder) = NumIds
    /\ openOrder[Len(openOrder)] = last.id
    /\ isModalOpen(modals, last.id)

\* a closeModal of an open panel ended in g's exception: the panel is closed
C33_WitnessClose ==
    /\ last.op = "close" /\ last.thrown /\ last.prior = "open"
    /\ ~isModalOpen(modals, last.id)

\* C34: a subscribe(o) in which o throws ends in the exception and hands out no
\* closure, but leaves o among the subscribers; a subscriber that is registered
\* and has no closure handed out is invoked, once, by every openModal and by
\* every closeModal of an id with an entry, and stays registered.
C34_ThrowingSubscriberStaysRegistered ==
    [][ /\ (last'.op = "subscribe" /\ last'.raised) =>
              /\ last'.thrown
              /\ handles' = handles
              /\ last'.sub \in Range(subscribers')
        /\ CountedCall(last') =>
              \A o \in Range(subscribers) \ handles :
                  /\ CallsTo(last'.log, o) = 1
                  /\ o \in Range(subscribers') ]_vars

\* g threw when it was subscribed, after f, and no closure for it exists; a later
\* closeModal invoked f and g
C34_Witness ==
    /\ last.op = "close" /\ last.prior = "open"
    /\ subscribers = << "f", "g" >> /\ handles = { "f" }
    /\ CallsTo(last.log, "f") = 1 /\ CallsTo(last.log, "g") = 1

\* C35: a subscriber is registered at most once; a subscribe of a subscriber that
\* is registered already leaves the subscribers as they are and invokes that
\* subscriber, once; every openModal and every closeModal of an id with an entry
\* in which nobody throws invokes each registered subscriber once; and one call
\* of a closure returned for a subscriber leaves it unregistered, so that no
\* later call invokes it.
C35_SubscribingTwiceRegistersOnce ==
    [][ /\ \A o \in Observers : Count(subscribers', o) <= 1
        /\ last'.again =>
              /\ subscribers' = subscribers
              /\ last'.log = << Delivery(last'.sub, modals) >>
        /\ (CountedCall(last') /\ ~last'.raised) =>
              \A o \in Range(subscribers) : CallsTo(last'.log, o) = 1
        /\ last'.op = "unsubscribe" => last'.sub \notin Range(subscribers')
        /\ NotifyingStep =>
              \A o \in Observers \ Range(subscribers) : CallsTo(last'.log, o) = 0 ]_vars

\* f, registered before g, was passed to subscribe again and invoked; it is
\* registered once, in its place
C35_Witness ==
    /\ last.op = "subscribe" /\ last.again /\ last.sub = "f"
    /\ subscribers = << "f", "g" >>
    /\ last.log = << Delivery("f", modals) >>
    /\ OpenIds(modals) # {}

\* o comes after p in subs
After(subs, o, p) == IndexOf(subs, o) > IndexOf(subs, p) /\ IndexOf(subs, p) > 0

\* C36: when a subscriber, invoked in the fan-out of a call, calls the closure
\* returned for a subscriber (itself or another one), that subscriber alone is
\* removed, every subscriber that is still registered is invoked exactly once in
\* that fan-out, and the removed subscriber is not invoked when it had not been
\* visited yet (it was, once, when it had).
C36_UnsubscribeDuringFanOut ==
    [][ (NotifyingStep /\ last'.reenter.op = "unsubscribe" /\ last'.reenter.done) =>
          LET caller == last'.reenter.by
              gone == last'.reenter.sub
          IN  /\ subscribers' = Without(subscribers, gone)
              /\ \A o \in Range(subscribers') : CallsTo(last'.log, o) = 1
              /\ CallsTo(last'.log, gone) =
                    IF After(subscribers, gone, caller) \/ gone \notin Range(subscribers)
                    THEN 0 ELSE 1 ]_vars

\* f, registered before g, called its own closure in the fan-out of an openModal:
\* g was invoked all the same
C36_Witness ==
    /\ last.op = "open" /\ last.reenter.op = "unsubscribe" /\ last.reenter.done
    /\ last.reenter.sub = "f"
    /\ subscribers = << "g" >>
    /\ CallsTo(last.log, "f") = 1 /\ CallsTo(last.log, "g") = 1
    /\ Len(last.log) = 2 /\ last.log[2].to = "g"

\* f, registered before g, called g's closure in the fan-out of a closeModal: g
\* was not invoked
C36_WitnessRemoved ==
    /\ last.op = "close" /\ last.reenter.op = "unsubscribe" /\ last.reenter.done
    /\ last.reenter.sub = "g"
    /\ subscribers = << "f" >>
    /\ last.log # << >> /\ CallsTo(last.log, "g") = 0

\* C37: a map that a subscriber was handed and has kept reads after every later
\* openModal, closeModal and keydown as it read before: for every id what it
\* showed when it was handed out.
C37_KeptSnapshotNeverChanges ==
    [][ (NotifyingStep /\ kept.has /\ ~kept'.taken) => kept'.snap = kept.snap ]_vars

\* a kept map still shows open a panel that a later call has closed, and lacks
\* an id that was opened since
C37_Witness ==
    /\ kept.has /\ ~kept.taken
    /\ last.op \in { "close", "keydown" } /\ last.prior = "open"
    /\ MapHas(kept.snap, last.id) /\ MapHas(modals, last.id)
    /\ kept.snap[last.id].isOpen /\ ~modals[last.id].isOpen
    /\ DOMAIN kept.snap # DOMAIN modals

\* C38: the unmount of the component, a render with another modalId and the
\* effect run that follows it make no openModal and no closeModal call and leave
\* modals and openOrder as they are, so the panel an Escape would close is the
\* same as before: a panel that was open stays open without its component.
C38_UnmountAndRebindLeaveTheRegistry ==
    [][ last'.op \in { "unmount", "rerender", "effect" } =>
          /\ last'.closes = 0
          /\ last'.opens = 0
          /\ modals' = modals
          /\ openOrder' = openOrder
          /\ getLastOpenModal(modals', openOrder') = getLastOpenModal(modals, openOrder)
          /\ last'.prior = PanelStateOf(modals', last'.id) ]_vars

\* the component of an open panel was unmounted: the panel is open and is the one
\* the next Escape closes
C38_Witness ==
    /\ last.op = "unmount" /\ last.prior = "open" /\ Truthy(last.id)
    /\ hook.phase = "off"
    /\ isModalOpen(modals, last.id)
    /\ getLastOpenModal(modals, openOrder) = last.id
    /\ RegisteredHooks(subscribers) = {}

\* the component was bound to another modalId and its effect has run: the panel of
\* the modalId it had is still open
C38_WitnessRebound ==
    /\ last.op = "effect" /\ last.sub \in HookFns /\ last.sub # HookFn(hook.id)
    /\ isModalOpen(modals, CapturedId(last.sub))

=============================================================================
